---- MODULE Spec2Model ----
(***************************************************************************)
(* Model of the disci InteractionHandler.                                  *)
(*                                                                         *)
(* Two revisions of the handler are in the repository:                     *)
(*   - src/unnamed/part_001: handleRequest -> verifyRequest ->             *)
(*     processRequest, with a reply timer (setTimeout);                    *)
(*   - src/unnamed/part_002: processRequest(body, signal), with an         *)
(*     AbortSignal listener and no timer.                                  *)
(* A request is served by one of them (request[r].variant).                *)
(*                                                                         *)
(* JavaScript runs one task at a time: every action below is one           *)
(* synchronous run of code between two awaits / event-loop turns.          *)
(***************************************************************************)
EXTENDS Integers, Sequences, FiniteSets, TLC

\* ---------------------------------------------------------------- bounds
\* largest options.replyTimeout (in clock ticks) a configuration may hold
MaxReplyTimeout == 2
\* how many times a subscriber may try to respond to one interaction
MaxAttempts == 2

Requests == {"r1", "r2"}

\* ---------------------------------------------------------------- values
Null == "null"

\* request bodies: text that is not JSON, the empty string, the JSON text
\* `null`, and JSON texts of an interaction of each type the handler
\* distinguishes
Bodies ==
    {"malformed", "empty", "jsonnull", "ping", "command", "autocomplete",
     "unknown"}
Signatures == {"none", "valid", "invalid"}
\* what a user supplied options.verifyRequest may do when called
CustomOutcomes == {"true", "false", "reject", "throw"}
\* response payloads a subscriber may hand to interaction.respond
Payloads == {"p1", "p2"}
\* what an interactionCreate listener does while emit() is running
SubscriberModes == {"later", "respond", "throw"}
\* the signal argument of processRequest (part_002)
SignalInputs == {"none", "live", "aborted"}

AbortReason == "AbortReason"

\* ---------------------------------------------------------------- promise
\* The promise made by `new Promise((resolve, reject) => ...)`.
NoPromise == [state |-> "none", value |-> <<>>]
PendingPromise == [state |-> "pending", value |-> <<>>]

\* mutant: a settled promise is overwritten by a later resolve/reject
SettleOverwrite(p, st, v) == [state |-> st, value |-> v]

\* resolve(v) / reject(v) of the executor: only the first call settles
Settle(p, st, v) == IF p.state = "pending" THEN [state |-> st, value |-> v] ELSE p

Resolve(p, v) == Settle(p, "resolved", v)
Reject(p, v) == Settle(p, "rejected", v)

\* toResponse(data, status): the response object handed to the transport
toResponse(data, status) == <<data, status>>

\* ---------------------------------------------------------------- parsing
\* JSON.parse(req.body): the type of the parsed interaction, null for the
\* text `null`, or a throw
JSONparse(body) ==
    CASE body = "malformed" -> "throw"
      [] body = "empty" -> "throw"
      [] body = "jsonnull" -> Null
      [] body = "ping" -> "Ping"
      [] body = "command" -> "ApplicationCommand"
      [] body = "autocomplete" -> "ApplicationCommandAutocomplete"
      [] OTHER -> "Unknown"

\* tryAndValue(fn): the value of fn(), null when it throws (processRequest
\* then rejects on `!rawInteraction`)
tryAndValue(v) == IF v = "throw" THEN Null ELSE v

\* InteractionFactory.from(handler, raw): an Interaction for the types that
\* have one, null for a ping and for an unrecognised type
InteractionFactoryFrom(raw) ==
    IF raw \in {"ApplicationCommand", "ApplicationCommandAutocomplete"}
    THEN raw ELSE Null

\* ---------------------------------------------------------------- interaction
NoInteraction ==
    [exists |-> FALSE, type |-> Null, responded |-> FALSE, timeout |-> FALSE,
     callback |-> "none"]

NewInteraction(type) ==
    [exists |-> TRUE, type |-> type, responded |-> FALSE, timeout |-> FALSE,
     callback |-> "none"]

\* interaction.useCallback(fn)
useCallback(i, fn) == [i EXCEPT !.callback = fn]

\* interaction.isAutoComplete()
isAutoComplete(i) == i.type = "ApplicationCommandAutocomplete"

\* Pending / Responded / TimedOut, read off the two flags
StateOf(i) ==
    IF i.responded THEN "Responded"
    ELSE IF i.timeout THEN "TimedOut" ELSE "Pending"

\* mutant: the callback drops the subscriber's payload
CallbackValueDropped(cb, pay) ==
    IF cb = "resolveResponse" THEN toResponse(Null, 200) ELSE <<Null>>

\* what the callback installed by processRequest resolves the promise with:
\* part_001 wraps the payload with toResponse, part_002 passes it as it is
CallbackValue(cb, pay) ==
    IF cb = "resolveResponse" THEN toResponse(pay, 200) ELSE <<pay>>

\* running the callback of an interaction on the promise p; calling a
\* callback that was never installed throws as well
InvokeCallback(cb, p, pay) ==
    IF cb \in {"throw", "none"}
    THEN [promise |-> p, threw |-> TRUE]
    ELSE [promise |-> Resolve(p, CallbackValue(cb, pay)), threw |-> FALSE]

\* interaction.respond(payload): valid only from Pending, else rejected with
\* no effect; from Pending it hands the payload to the callback and the
\* interaction becomes Responded (it stays as it was when the callback throws)
respond(i, p, pay) ==
    IF StateOf(i) # "Pending"
    THEN [interaction |-> i, promise |-> p, result |-> "rejected"]
    ELSE LET c == InvokeCallback(i.callback, p, pay) IN
         IF c.threw
         THEN [interaction |-> i, promise |-> p, result |-> "threw"]
         ELSE [interaction |-> [i EXCEPT !.responded = TRUE],
               promise |-> c.promise, result |-> "applied"]

\* interaction.deferResponse(): responds with the deferred acknowledgement
deferResponse(i, p) == respond(i, p, "Deferred")

\* ---------------------------------------------------------------- listeners
\* this.emit('interactionCreate', interaction): the listeners run inside the
\* call. A listener may keep the interaction for later, respond at once, or
\* throw; a throw leaves the promise executor and rejects the promise.
emit(i, p, mode, pay) ==
    CASE mode = "respond" ->
           LET a == respond(i, p, pay) IN
           [interaction |-> a.interaction, promise |-> a.promise,
            attempt |-> a.result]
      [] mode = "throw" ->
           [interaction |-> i, promise |-> Reject(p, <<"SubscriberError">>),
            attempt |-> "none"]
      [] OTHER ->
           [interaction |-> i, promise |-> p, attempt |-> "none"]

\* ---------------------------------------------------------------- timer (part_001)
\* mutant: the timer is started with no delay
TimerDelayZero(opts) == 0

\* the delay handed to setTimeout
TimerDelay(opts) == opts.replyTimeout

\* mutant: the timer does not look at interaction.responded
TimeoutBranchUnguarded(i, opts) ==
    IF opts.deferOnTimeout /\ ~isAutoComplete(i) THEN "defer" ELSE "hard"

\* mutant: the timer defers autocomplete interactions too
TimeoutBranchDeferAll(i, opts) ==
    IF ~(i.exists /\ ~i.responded) THEN "noop"
    ELSE IF opts.deferOnTimeout THEN "defer" ELSE "hard"

\* mutant: the deferOnTimeout option is read the wrong way round
TimeoutBranchFlipped(i, opts) ==
    IF ~(i.exists /\ ~i.responded) THEN "noop"
    ELSE IF ~opts.deferOnTimeout /\ ~isAutoComplete(i) THEN "defer" ELSE "hard"

\* which branch the setTimeout callback takes
TimeoutBranch(i, opts) ==
    IF ~(i.exists /\ ~i.responded) THEN "noop"
    ELSE IF opts.deferOnTimeout /\ ~isAutoComplete(i) THEN "defer" ELSE "hard"

\* the setTimeout callback
onTimeout(i, p, opts) ==
    LET b == TimeoutBranch(i, opts) IN
    CASE b = "defer" ->
           LET a == deferResponse(i, p) IN
           [interaction |-> a.interaction, promise |-> a.promise]
      [] b = "hard" ->
           [interaction |-> [i EXCEPT !.timeout = TRUE],
            promise |-> Resolve(p, toResponse("TimedOut", 504))]
      [] OTHER -> [interaction |-> i, promise |-> p]

\* ---------------------------------------------------------------- processRequest
\* mutant: a ping is answered like an unsupported interaction
PingResponseUnsupported == "NotSupported"

\* the type of the response to a ping
PingResponse == "Pong"

\* what one run of a processRequest executor leaves behind
Processed(p, i, t, l, e, a, js) ==
    [promise |-> p, interaction |-> i, timer |-> t, abortListener |-> l,
     emitted |-> e, attempt |-> a, parsed |-> js]

\* mutant: interactionCreate is emitted before the callback is installed
processRequestEmitFirst(body, opts, mode, pay) ==
    LET rawInteraction == tryAndValue(JSONparse(body))
        type == InteractionFactoryFrom(rawInteraction)
    IN
    IF rawInteraction = Null
    THEN Processed(Reject(PendingPromise, <<"DisciParseError">>),
                   NoInteraction, "none", FALSE, 0, "none", TRUE)
    ELSE IF type # Null
    THEN LET e == emit(NewInteraction(type), PendingPromise, mode, pay)
         IN Processed(e.promise, useCallback(e.interaction, "resolveResponse"),
                      "armed", FALSE, 1, e.attempt, TRUE)
    ELSE IF rawInteraction = "Ping"
    THEN Processed(Resolve(PendingPromise, toResponse(PingResponse, 200)),
                   NoInteraction, "none", FALSE, 0, "none", TRUE)
    ELSE Processed(Resolve(PendingPromise, toResponse("NotSupported", 500)),
                   NoInteraction, "none", FALSE, 0, "none", TRUE)

\* processRequest of part_001, run on a request body
processRequest(body, opts, mode, pay) ==
    LET rawInteraction == tryAndValue(JSONparse(body))
        type == InteractionFactoryFrom(rawInteraction)
    IN
    IF rawInteraction = Null
    THEN Processed(Reject(PendingPromise, <<"DisciParseError">>),
                   NoInteraction, "none", FALSE, 0, "none", TRUE)
    ELSE IF type # Null
    THEN LET i == useCallback(NewInteraction(type), "resolveResponse")
             e == emit(i, PendingPromise, mode, pay)
         IN Processed(e.promise, e.interaction, "armed", FALSE, 1, e.attempt, TRUE)
    ELSE IF rawInteraction = "Ping"
    THEN Processed(Resolve(PendingPromise, toResponse(PingResponse, 200)),
                   NoInteraction, "none", FALSE, 0, "none", TRUE)
    ELSE Processed(Resolve(PendingPromise, toResponse("NotSupported", 500)),
                   NoInteraction, "none", FALSE, 0, "none", TRUE)

\* processRequest of part_002, run on a body and a signal
processRequestSignal(body, sig, mode, pay) ==
    LET rawInteraction == tryAndValue(JSONparse(body))
        type == InteractionFactoryFrom(rawInteraction)
    IN
    IF sig = "aborted"
    THEN Processed(Reject(PendingPromise, <<AbortReason>>),
                   NoInteraction, "none", FALSE, 0, "none", FALSE)
    ELSE IF rawInteraction = Null
    THEN Processed(Reject(PendingPromise, <<"ParseError">>),
                   NoInteraction, "none", FALSE, 0, "none", TRUE)
    ELSE IF type # Null
    THEN LET i == useCallback(NewInteraction(type), "resolveRaw")
             e == emit(i, PendingPromise, mode, pay)
         IN Processed(e.promise, e.interaction, "none", sig # "none", 1,
                      e.attempt, TRUE)
    ELSE IF rawInteraction = "Ping"
    THEN Processed(Resolve(PendingPromise, <<PingResponse>>),
                   NoInteraction, "none", FALSE, 0, "none", TRUE)
    ELSE Processed(Reject(PendingPromise, <<"UnsupportedInteraction">>),
                   NoInteraction, "none", FALSE, 0, "none", TRUE)

\* mutant: the abort listener forgets to reject the promise
onAbortNoReject(i, p) ==
    [interaction |-> useCallback(i, "throw"), promise |-> p]

\* the abort listener of part_002
onAbort(i, p) ==
    [interaction |-> useCallback(i, "throw"),
     promise |-> Reject(p, <<AbortReason>>)]

\* ---------------------------------------------------------------- verifyRequest
\* `!timestamp || !signature || !body`: verifyRequest returns false at once
MissingInput(q) == ~q.timestamp \/ q.signature = "none" \/ q.body = "empty"

\* the checks of verifyRequest after the key is there: both headers and the
\* body must be present, then crypto.subtle.verify decides
VerifyVerdict(q) ==
    IF MissingInput(q)
    THEN "false"
    ELSE IF q.signature = "valid" THEN "true" ELSE "false"

\* ---------------------------------------------------------------- handleRequest
NoResult == [kind |-> "none", value |-> <<>>]
Returned(v) == [kind |-> "returned", value |-> v]
Thrown(v) == [kind |-> "rejected", value |-> v]

Unauthorized == toResponse("Unauthorized", 400)
InternalError == toResponse("InternalError", 500)

\* `return await this.processRequest(...)` and the catch block around it:
\* emit('error', pErr) throws pErr when no 'error' listener is registered
AwaitProcess(p, hasErrorListener) ==
    CASE p.state = "resolved" -> Returned(p.value)
      [] p.state = "rejected" ->
           IF hasErrorListener THEN Returned(InternalError) ELSE Thrown(p.value)
      [] OTHER -> NoResult

\* ---------------------------------------------------------------- options
Revisions == {"part_001", "part_002"}
Handlers == {"h1", "h2"}

\* an object with no property
EmptyObject == [k \in {} |-> 0]

\* Object.assign(target, source): the target with every property of the
\* source written over it
ObjectAssign(target, source) ==
    [k \in DOMAIN target \cup DOMAIN source |->
        IF k \in DOMAIN source THEN source[k] ELSE target[k]]

\* URLS.DiscordApi, a string given as the sequence of its pieces
DiscordApi == <<"https://discord.com/api">>

\* defaultOptions of utils/constants
DefaultOptions ==
    [replyTimeout |-> 3000, deferOnTimeout |-> FALSE, publicKey |-> "",
     rest |-> EmptyObject]

\* the options a user may hand to a constructor
UserOptions ==
    {EmptyObject,
     [publicKey |-> "abcd"],
     [publicKey |-> "abcd", replyTimeout |-> 1000],
     [deferOnTimeout |-> TRUE, rest |-> [token |-> "t1"]],
     [publicKey |-> "ef01", deferOnTimeout |-> TRUE,
      rest |-> [rootUrl |-> <<"https://proxy", "/">>]]}

NoHandler ==
    [status |-> "none", revision |-> "none", shared |-> FALSE,
     own |-> EmptyObject, args |-> EmptyObject]

\* ---------------------------------------------------------------- REST
NoRest == [made |-> FALSE, authPrefix |-> "", authToken |-> "", rootUrl |-> <<>>]
NoFetch ==
    [helper |-> "none", method |-> "none", url |-> <<>>,
     authorization |-> <<>>, body |-> FALSE, stage |-> "none",
     response |-> "none", outcome |-> "none"]

Last(s) == s[Len(s)]

\* new Rest(_opts)
RestConstructor(opts) ==
    [made |-> TRUE,
     authPrefix |-> IF "authPrefix" \in DOMAIN opts /\ opts.authPrefix # ""
                    THEN opts.authPrefix ELSE "Bot",
     authToken |-> IF "token" \in DOMAIN opts THEN opts.token ELSE "",
     rootUrl |-> IF "rootUrl" \in DOMAIN opts /\ opts.rootUrl # <<>>
                 THEN IF Last(opts.rootUrl) = "/"
                      THEN SubSeq(opts.rootUrl, 1, Len(opts.rootUrl) - 1)
                      ELSE opts.rootUrl
                 ELSE DiscordApi]

\* getUrl(path, queryParams); query is <<>> when no queryParams are given
getUrl(rest, path, query) ==
    LET url == IF Head(path) = "/" THEN rest.rootUrl \o path
               ELSE IF Head(path) \in {"https://", "http://"} THEN path
               ELSE rest.rootUrl \o <<"/">> \o path
    IN IF query # <<>> THEN url \o <<"?">> \o query ELSE url

\* the authHeader getter
authHeader(rest) == <<rest.authPrefix, " ", rest.authToken>>

\* the HTTP method each helper hands to makeRequest
HelperMethod(helper) ==
    CASE helper = "get" -> "GET"
      [] helper = "post" -> "GET"
      [] helper = "put" -> "put"
      [] helper = "patch" -> "GET"
      [] helper = "delete" -> "DELETE"

Helpers == {"get", "post", "put", "patch", "delete"}
\* the methods the host calls makeRequest with by itself
Methods == {"GET", "POST", "PUT", "PATCH", "DELETE"}
Paths == {<<"/", "users">>, <<"users">>, <<"https://", "cdn/users">>}
Queries == {<<>>, <<"limit=1">>}

\* what fetch resolves with: an ok response that says it is JSON and is, one
\* that says so and is not, one of another content type, and a response
\* that is not ok with a JSON body or with another body
Responses == {"okJson", "okJsonBad", "okOther", "notOkJson", "notOkBad"}

\* fetch refuses a request that has a body and the method GET or HEAD
RefusesBody(method) == method \in {"GET", "HEAD"}

\* makeRequest(method, path, opts) up to `await fetch(...)`: the request is
\* made with the url and the Authorization header of that moment; body is
\* whether opts.body is given
makeRequest(rest, helper, method, path, query, body) ==
    [helper |-> helper, method |-> method, url |-> getUrl(rest, path, query),
     authorization |-> authHeader(rest), body |-> body, stage |-> "fetching",
     response |-> "none", outcome |-> "none"]

\* how makeRequest ends once the body of the response was read. A response
\* that is not ok is read through tryAndValue: the error is a DisciRestError,
\* or the SyntaxError of req.json() if tryAndValue lets a rejection through
ReadOutcomes(response) ==
    CASE response = "okJson" -> {"json"}
      [] response = "okJsonBad" -> {"SyntaxError"}
      [] response = "okOther" -> {"arrayBuffer"}
      [] response = "notOkJson" -> {"DisciRestError"}
      [] response = "notOkBad" -> {"DisciRestError", "SyntaxError"}

\* ---------------------------------------------------------------- state
VARIABLES
    options,        \* this.options of the handler
    errorListener,  \* whether an 'error' listener is registered on the handler
    publicKey,      \* this.publicKey: Null, or the key object, named after
                    \* the request whose importKey call made it
    importCount,    \* how many times crypto.subtle.importKey was called
    pc,             \* where each request is
    request,        \* the input of each request
    verdict,        \* what the pending verifyFn promise will settle with
    promise,        \* the promise of processRequest
    result,         \* what handleRequest (or a verifyRequest called by
                    \* the host) returned or threw (part_001)
    interaction,    \* the Interaction made for the request
    timer,          \* the setTimeout of the request: none, armed, fired
    elapsed,        \* clock ticks since the timer was started
    signal,         \* the AbortSignal of the request: none, live, aborted
    abortListener,  \* whether processRequest added its abort listener
    emitted,        \* how many times interactionCreate was emitted
    attempts,       \* how many times the subscriber called respond,
                    \* counted up to MaxAttempts
    firstPayload,   \* the payload of the subscriber's first respond
    lastAttempt,    \* how the latest respond ended
    parsed,         \* whether JSON.parse ran on the body
    settledAt,      \* elapsed when the promise settled, -1 before
    settledBy,      \* what settled the promise: respond, timer, abort, throw
                    \* (a listener threw inside emit) or executor
    inEmit,         \* what the listener did while interactionCreate was
                    \* emitted (a member of SubscriberModes), "none" before
    defaultOptions, \* the defaultOptions object of each revision's constants
    handlers,       \* the InteractionHandler objects that were constructed
    api,            \* the Rest client of each handler (part_002: this.api)
    lastFetch       \* the latest fetch() made by a Rest client, and its end

vars == <<options, errorListener, publicKey, importCount, pc, request, verdict,
          promise, result, interaction, timer, elapsed, signal, abortListener,
          emitted, attempts, firstPayload, lastAttempt, parsed, settledAt,
          settledBy, inEmit, defaultOptions, handlers, api, lastFetch>>

\* what the construction of handlers and their Rest clients works on
clientVars == <<defaultOptions, handlers, api, lastFetch>>

\* this.options of a handler: an object of its own, or the defaultOptions
\* object itself when the constructor kept a reference to it
HandlerOptions(h) ==
    IF handlers[h].shared
    THEN defaultOptions[handlers[h].revision] ELSE handlers[h].own

NoRequest ==
    [variant |-> "none", body |-> Null, timestamp |-> FALSE,
     signature |-> "none"]

Options ==
    [deferOnTimeout : BOOLEAN, replyTimeout : 1..MaxReplyTimeout,
     verifyRequest : {"default", "custom"}, publicKey : {"valid", "invalid"}]

\* no handler of the client package is constructed, no call was made
InitNoClient ==
    /\ defaultOptions = [rev \in Revisions |-> DefaultOptions]
    /\ handlers = [h \in Handlers |-> NoHandler]
    /\ api = [h \in Handlers |-> NoRest]
    /\ lastFetch = NoFetch

InitRequests(started) ==
    /\ options \in Options
    /\ errorListener \in BOOLEAN
    /\ publicKey = Null
    /\ importCount = 0
    /\ pc = [r \in Requests |-> IF r \in started THEN "idle" ELSE "off"]
    /\ request = [r \in Requests |-> NoRequest]
    /\ verdict = [r \in Requests |-> "none"]
    /\ promise = [r \in Requests |-> NoPromise]
    /\ result = [r \in Requests |-> NoResult]
    /\ interaction = [r \in Requests |-> NoInteraction]
    /\ timer = [r \in Requests |-> "none"]
    /\ elapsed = [r \in Requests |-> 0]
    /\ signal = [r \in Requests |-> "none"]
    /\ abortListener = [r \in Requests |-> FALSE]
    /\ emitted = [r \in Requests |-> 0]
    /\ attempts = [r \in Requests |-> 0]
    /\ firstPayload = [r \in Requests |-> Null]
    /\ lastAttempt = [r \in Requests |-> "none"]
    /\ parsed = [r \in Requests |-> FALSE]
    /\ settledAt = [r \in Requests |-> -1]
    /\ settledBy = [r \in Requests |-> "none"]
    /\ inEmit = [r \in Requests |-> "none"]

InitWith(started) == InitRequests(started) /\ InitNoClient

\* one request in flight
Init == InitWith({"r1"})

Settled(p) == p.state \in {"resolved", "rejected"}

\* the history variables of request r after a step that leaves its promise p
\* and made the respond attempt a (with payload pay); cause names the step
History(r, p, a, pay, cause) ==
    /\ settledAt' = [settledAt EXCEPT ![r] =
            IF ~Settled(promise[r]) /\ Settled(p) THEN elapsed[r] ELSE @]
    /\ settledBy' = [settledBy EXCEPT ![r] =
            IF ~Settled(promise[r]) /\ Settled(p) THEN cause ELSE @]
    /\ attempts' = [attempts EXCEPT ![r] =
            IF a = "none" \/ @ = MaxAttempts THEN @ ELSE @ + 1]
    /\ firstPayload' = [firstPayload EXCEPT ![r] =
            IF a # "none" /\ attempts[r] = 0 THEN pay ELSE @]
    /\ lastAttempt' = [lastAttempt EXCEPT ![r] = IF a = "none" THEN @ ELSE a]

\* the state of request r after a processRequest executor ran (x: Processed)
Install(r, x, pay, mode) ==
    /\ inEmit' = [inEmit EXCEPT ![r] = IF x.emitted > 0 THEN mode ELSE @]
    /\ promise' = [promise EXCEPT ![r] = x.promise]
    /\ interaction' = [interaction EXCEPT ![r] = x.interaction]
    /\ timer' = [timer EXCEPT ![r] = x.timer]
    /\ abortListener' = [abortListener EXCEPT ![r] = x.abortListener]
    /\ emitted' = [emitted EXCEPT ![r] = x.emitted]
    /\ parsed' = [parsed EXCEPT ![r] = x.parsed]
    /\ History(r, x.promise, x.attempt, pay,
               IF x.attempt = "applied" THEN "respond"
               ELSE IF x.emitted > 0 THEN "throw" ELSE "executor")

\* the requests are named in the order in which the host makes them: r can
\* be started when it is idle and r1 is no longer idle
Startable(r) == pc[r] = "idle" /\ (r = "r1" \/ pc["r1"] # "idle")

\* a handleRequest whose awaited promise is settled resumes before the event
\* loop takes up a timer
ContinuationReady ==
    \E r \in Requests : pc[r] = "awaiting" /\ Settled(promise[r])

\* ---------------------------------------------------------------- actions
\* the requests handleRequest is called with; a custom verifyRequest decides
\* by itself, so the headers are varied for the built-in verifier only
HandleInputs ==
    {q \in [variant : {"handle"}, body : Bodies, timestamp : BOOLEAN,
            signature : Signatures] :
        options.verifyRequest = "custom" => q.timestamp /\ q.signature = "valid"}

\* handleRequest(req), up to its first await: the verifier is called. The
\* built-in verifyRequest imports the key when this.publicKey is not set.
handleRequest(r) ==
    /\ Startable(r)
    /\ \E q \in HandleInputs :
         /\ request' = [request EXCEPT ![r] = q]
         /\ IF options.verifyRequest = "custom"
            THEN /\ \E o \in CustomOutcomes :
                      IF o = "throw"
                      THEN /\ pc' = [pc EXCEPT ![r] = "done"]
                           /\ result' = [result EXCEPT ![r] = Thrown(<<"VerifyError">>)]
                           /\ UNCHANGED verdict
                      ELSE /\ pc' = [pc EXCEPT ![r] = "verifying"]
                           /\ verdict' = [verdict EXCEPT ![r] = o]
                           /\ UNCHANGED result
                 /\ UNCHANGED importCount
            ELSE IF publicKey = Null
            THEN /\ pc' = [pc EXCEPT ![r] = "importing"]
                 /\ importCount' = importCount + 1
                 /\ UNCHANGED <<verdict, result>>
            ELSE /\ pc' = [pc EXCEPT ![r] = "verifying"]
                 /\ verdict' = [verdict EXCEPT ![r] = VerifyVerdict(q)]
                 /\ UNCHANGED <<importCount, result>>
    /\ UNCHANGED <<clientVars, options, errorListener, publicKey, promise, interaction,
                   timer, elapsed, signal, abortListener, emitted, attempts,
                   firstPayload, lastAttempt, parsed, settledAt, settledBy,
                   inEmit>>

\* what a verifyRequest called by the host ends with when its promise
\* settles with verdict v
VerifyResult(v) ==
    IF v = "reject" THEN Thrown(<<"ImportError">>) ELSE Returned(<<v>>)

\* verifyRequest after `await crypto.subtle.importKey(...)`: the key is
\* stored and the headers are checked; a key that cannot be imported
\* rejects. The promise of verifyRequest settles in this run unless
\* crypto.subtle.verify is called; a handleRequest that awaits it resumes
\* later
importKeyDone(r) ==
    /\ pc[r] = "importing"
    /\ LET v == IF options.publicKey = "valid"
                THEN VerifyVerdict(request[r]) ELSE "reject"
           now == \/ options.publicKey # "valid"
                  \/ MissingInput(request[r])
       IN /\ verdict' = [verdict EXCEPT ![r] = v]
          /\ publicKey' = IF options.publicKey = "valid" THEN r ELSE publicKey
          /\ IF request[r].variant = "verify" /\ now
             THEN /\ result' = [result EXCEPT ![r] = VerifyResult(v)]
                  /\ pc' = [pc EXCEPT ![r] = "done"]
             ELSE /\ pc' = [pc EXCEPT ![r] = "verifying"]
                  /\ UNCHANGED result
    /\ UNCHANGED <<clientVars, options, errorListener, importCount, request, promise,
                   interaction, timer, elapsed, signal, abortListener,
                   emitted, attempts, firstPayload, lastAttempt, parsed,
                   settledAt, settledBy, inEmit>>

\* handleRequest after `await verifyFn(...).catch(...)`: Unauthorized, or the
\* call of processRequest, whose executor runs to its end; handleRequest then
\* awaits the promise
handleRequestResume(r) ==
    /\ pc[r] = "verifying"
    /\ request[r].variant = "handle"
    /\ IF verdict[r] # "true"
       THEN /\ result' = [result EXCEPT ![r] = Returned(Unauthorized)]
            /\ pc' = [pc EXCEPT ![r] = "done"]
            /\ UNCHANGED <<promise, interaction, timer, abortListener, emitted,
                           attempts, firstPayload, lastAttempt, parsed,
                           settledAt, settledBy, inEmit>>
       ELSE \E mode \in SubscriberModes, pay \in Payloads :
              LET x == processRequest(request[r].body, options, mode, pay)
              IN /\ Install(r, x, pay, mode)
                 /\ pc' = [pc EXCEPT ![r] = "awaiting"]
                 /\ UNCHANGED result
    /\ UNCHANGED <<clientVars, options, errorListener, publicKey, importCount, request,
                   verdict, elapsed, signal>>

\* handleRequest after `await this.processRequest(...)`: once the promise is
\* settled a later turn of the event loop returns the response, or runs the
\* catch block
handleRequestReturn(r) ==
    /\ pc[r] = "awaiting"
    /\ Settled(promise[r])
    /\ result' = [result EXCEPT ![r] = AwaitProcess(promise[r], errorListener)]
    /\ pc' = [pc EXCEPT ![r] = "done"]
    /\ UNCHANGED <<clientVars, options, errorListener, publicKey, importCount, request,
                   verdict, promise, interaction, timer, elapsed, signal,
                   abortListener, emitted, attempts, firstPayload, lastAttempt,
                   parsed, settledAt, settledBy, inEmit>>

\* the requests the host calls verifyRequest with
VerifyInputs ==
    [variant : {"verify"}, body : {"empty", "ping"}, timestamp : BOOLEAN,
     signature : Signatures]

\* verifyRequest(req) called by the host, up to its first await: the key
\* import, or with the key there crypto.subtle.verify; a request with a
\* missing header or body is answered false in the run of the call
callVerifyRequest(r) ==
    /\ Startable(r)
    /\ \E q \in VerifyInputs :
         /\ request' = [request EXCEPT ![r] = q]
         /\ IF publicKey = Null
            THEN /\ pc' = [pc EXCEPT ![r] = "importing"]
                 /\ importCount' = importCount + 1
                 /\ UNCHANGED <<verdict, result>>
            ELSE /\ verdict' = [verdict EXCEPT ![r] = VerifyVerdict(q)]
                 /\ UNCHANGED importCount
                 /\ IF MissingInput(q)
                    THEN /\ result' = [result EXCEPT ![r] = VerifyResult("false")]
                         /\ pc' = [pc EXCEPT ![r] = "done"]
                    ELSE /\ pc' = [pc EXCEPT ![r] = "verifying"]
                         /\ UNCHANGED result
    /\ UNCHANGED <<clientVars, options, errorListener, publicKey, promise,
                   interaction, timer, elapsed, signal, abortListener, emitted,
                   attempts, firstPayload, lastAttempt, parsed, settledAt,
                   settledBy, inEmit>>

\* crypto.subtle.verify settles for a verifyRequest called by the host
verifyRequestReturn(r) ==
    /\ pc[r] = "verifying"
    /\ request[r].variant = "verify"
    /\ result' = [result EXCEPT ![r] = VerifyResult(verdict[r])]
    /\ pc' = [pc EXCEPT ![r] = "done"]
    /\ UNCHANGED <<clientVars, options, errorListener, publicKey, importCount, request,
                   verdict, promise, interaction, timer, elapsed, signal,
                   abortListener, emitted, attempts, firstPayload, lastAttempt,
                   parsed, settledAt, settledBy, inEmit>>

\* processRequest(req) of part_001, called by the host directly: nothing is
\* verified
callProcessRequest001(r) ==
    /\ Startable(r)
    /\ \E body \in Bodies, mode \in SubscriberModes, pay \in Payloads :
         LET x == processRequest(body, options, mode, pay) IN
         /\ request' = [request EXCEPT ![r] =
                [variant |-> "process001", body |-> body, timestamp |-> FALSE,
                 signature |-> "none"]]
         /\ Install(r, x, pay, mode)
         /\ pc' = [pc EXCEPT ![r] =
                IF Settled(x.promise) THEN "done" ELSE "waiting"]
    /\ UNCHANGED <<clientVars, options, errorListener, publicKey, importCount, verdict,
                   result, elapsed, signal>>

\* processRequest(body, signal) of part_002, called by the host directly
callProcessRequest(r) ==
    /\ Startable(r)
    /\ \E body \in Bodies, sig \in SignalInputs, mode \in SubscriberModes,
          pay \in Payloads :
         LET x == processRequestSignal(body, sig, mode, pay) IN
         /\ request' = [request EXCEPT ![r] =
                [variant |-> "process", body |-> body, timestamp |-> FALSE,
                 signature |-> "none"]]
         /\ signal' = [signal EXCEPT ![r] = sig]
         /\ Install(r, x, pay, mode)
         /\ pc' = [pc EXCEPT ![r] =
                IF Settled(x.promise) THEN "done" ELSE "waiting"]
    /\ UNCHANGED <<clientVars, options, errorListener, publicKey, importCount, verdict,
                   result, elapsed>>

\* mutant: resolve and reject are kept on the handler, so an event of one
\* request also settles the pending promise of the others
AfterShared(r, i, p, a, pay, cause) ==
    /\ interaction' = [interaction EXCEPT ![r] = i]
    /\ promise' = [q \in Requests |->
            IF q = r THEN p
            ELSE IF promise[q].state = "pending" /\ Settled(p) THEN p
            ELSE promise[q]]
    /\ History(r, p, a, pay, cause)
    /\ pc' = [pc EXCEPT ![r] =
            IF @ = "waiting" /\ Settled(p) THEN "done" ELSE @]
    /\ UNCHANGED result

\* request r after an event that left interaction i and promise p; a
\* handleRequest that awaits the promise resumes in a later turn
After(r, i, p, a, pay, cause) ==
    /\ interaction' = [interaction EXCEPT ![r] = i]
    /\ promise' = [promise EXCEPT ![r] = p]
    /\ History(r, p, a, pay, cause)
    /\ pc' = [pc EXCEPT ![r] =
            IF @ = "waiting" /\ Settled(p) THEN "done" ELSE @]
    /\ UNCHANGED result

\* a subscriber that was handed the interaction calls interaction.respond
subscriberResponds(r) ==
    /\ emitted[r] > 0
    /\ \E pay \in Payloads :
         LET a == respond(interaction[r], promise[r], pay) IN
         After(r, a.interaction, a.promise, a.result, pay, "respond")
    /\ UNCHANGED <<clientVars, options, errorListener, publicKey, importCount, request,
                   verdict, timer, elapsed, signal, abortListener, emitted,
                   parsed, inEmit>>

\* the setTimeout callback of processRequest (part_001) runs
timerFires(r) ==
    /\ timer[r] = "armed"
    /\ elapsed[r] >= TimerDelay(options)
    /\ ~ContinuationReady
    /\ LET t == onTimeout(interaction[r], promise[r], options) IN
       After(r, t.interaction, t.promise, "none", Null, "timer")
    /\ timer' = [timer EXCEPT ![r] = "fired"]
    /\ UNCHANGED <<clientVars, options, errorListener, publicKey, importCount, request,
                   verdict, elapsed, signal, abortListener, emitted, parsed, inEmit>>

\* the AbortSignal of a request fires; the listener of part_002 runs if added
abort(r) ==
    /\ signal[r] = "live"
    /\ signal' = [signal EXCEPT ![r] = "aborted"]
    /\ IF abortListener[r]
       THEN LET b == onAbort(interaction[r], promise[r]) IN
            After(r, b.interaction, b.promise, "none", Null, "abort")
       ELSE UNCHANGED <<interaction, promise, result, pc, settledAt, settledBy,
                        attempts, firstPayload, lastAttempt>>
    /\ UNCHANGED <<clientVars, options, errorListener, publicKey, importCount, request,
                   verdict, timer, elapsed, abortListener, emitted, parsed, inEmit>>

\* the clock of a timer is followed until the handler's replyTimeout has
\* passed: from there on the timer is due whatever the time
MaxElapsed == options.replyTimeout

\* one unit of time passes for every running timer
tick ==
    /\ \E r \in Requests : timer[r] = "armed" /\ elapsed[r] < MaxElapsed
    /\ elapsed' = [r \in Requests |->
            IF timer[r] = "armed" /\ elapsed[r] < MaxElapsed
            THEN elapsed[r] + 1 ELSE elapsed[r]]
    /\ UNCHANGED <<clientVars, options, errorListener, publicKey, importCount, pc, request,
                   verdict, promise, result, interaction, timer, signal,
                   abortListener, emitted, attempts, firstPayload, lastAttempt,
                   parsed, settledAt, settledBy, inEmit>>

\* new InteractionHandler(options) of part_001: the options are merged into
\* a fresh object; a handler without a public key is refused
construct001(h) ==
    /\ handlers[h].status = "none"
    /\ \E args \in UserOptions :
         LET o == ObjectAssign(ObjectAssign(EmptyObject,
                                            defaultOptions["part_001"]), args)
         IN handlers' = [handlers EXCEPT ![h] =
                IF o.publicKey = ""
                THEN [NoHandler EXCEPT !.status = "threw",
                                       !.revision = "part_001", !.args = args]
                ELSE [status |-> "made", revision |-> "part_001",
                      shared |-> FALSE, own |-> o, args |-> args]]
    /\ UNCHANGED <<defaultOptions, api, lastFetch>>
    /\ UNCHANGED <<options, errorListener, publicKey, importCount, pc, request,
                   verdict, promise, result, interaction, timer, elapsed,
                   signal, abortListener, emitted, attempts, firstPayload,
                   lastAttempt, parsed, settledAt, settledBy, inEmit>>

\* the handler object new InteractionHandler(args) of part_002 makes
Handler002(args) ==
    [status |-> "made", revision |-> "part_002", shared |-> TRUE,
     own |-> EmptyObject, args |-> args]

\* new InteractionHandler(options) of part_002: the options are merged into
\* defaultOptions itself, which becomes this.options; this.api is made from
\* this.options.rest
construct002(h) ==
    /\ handlers[h].status = "none"
    /\ \E args \in UserOptions :
         LET o == ObjectAssign(defaultOptions["part_002"], args) IN
         /\ defaultOptions' = [defaultOptions EXCEPT !["part_002"] = o]
         /\ handlers' = [handlers EXCEPT ![h] = Handler002(args)]
         /\ api' = [api EXCEPT ![h] = RestConstructor(o.rest)]
    /\ UNCHANGED lastFetch
    /\ UNCHANGED <<options, errorListener, publicKey, importCount, pc, request,
                   verdict, promise, result, interaction, timer, elapsed,
                   signal, abortListener, emitted, attempts, firstPayload,
                   lastAttempt, parsed, settledAt, settledBy, inEmit>>

\* rest.setToken(token): an empty token is refused with a TypeError
setToken(h) ==
    /\ api[h].made
    /\ \E token \in {"", "t2"} :
         api' = [api EXCEPT ![h].authToken = IF token = "" THEN @ ELSE token]
    /\ UNCHANGED <<defaultOptions, handlers, lastFetch>>
    /\ UNCHANGED <<options, errorListener, publicKey, importCount, pc, request,
                   verdict, promise, result, interaction, timer, elapsed,
                   signal, abortListener, emitted, attempts, firstPayload,
                   lastAttempt, parsed, settledAt, settledBy, inEmit>>

\* rest.get / post / put / patch / delete (path, opts), or makeRequest called
\* by the host, up to `await fetch(...)`; lastFetch follows the latest call
restCall(h) ==
    /\ api[h].made
    /\ \E helper \in Helpers \cup {"makeRequest"}, path \in Paths,
          query \in Queries, body \in BOOLEAN :
         \E method \in (IF helper = "makeRequest" THEN Methods
                         ELSE {HelperMethod(helper)}) :
            lastFetch' = makeRequest(api[h], helper, method, path, query, body)
    /\ UNCHANGED <<defaultOptions, handlers, api>>
    /\ UNCHANGED <<options, errorListener, publicKey, importCount, pc, request,
                   verdict, promise, result, interaction, timer, elapsed,
                   signal, abortListener, emitted, attempts, firstPayload,
                   lastAttempt, parsed, settledAt, settledBy, inEmit>>

\* makeRequest after `await fetch(...)`: fetch rejected (the network failed,
\* or the request was refused) and the call ends with that TypeError, or a
\* response arrived and its body is being read
fetchSettles ==
    /\ lastFetch.stage = "fetching"
    /\ \E f \in {"reject"} \cup Responses :
         /\ lastFetch.body /\ RefusesBody(lastFetch.method) => f = "reject"
         /\ lastFetch' =
               IF f = "reject"
               THEN [lastFetch EXCEPT !.stage = "ended", !.outcome = "TypeError"]
               ELSE [lastFetch EXCEPT !.stage = "reading", !.response = f]
    /\ UNCHANGED <<defaultOptions, handlers, api>>
    /\ UNCHANGED <<options, errorListener, publicKey, importCount, pc, request,
                   verdict, promise, result, interaction, timer, elapsed,
                   signal, abortListener, emitted, attempts, firstPayload,
                   lastAttempt, parsed, settledAt, settledBy, inEmit>>

\* makeRequest after the body was read (req.json(), req.arrayBuffer()): the
\* call returns the body or throws
bodyRead ==
    /\ lastFetch.stage = "reading"
    /\ \E o \in ReadOutcomes(lastFetch.response) :
         lastFetch' = [lastFetch EXCEPT !.stage = "ended", !.outcome = o]
    /\ UNCHANGED <<defaultOptions, handlers, api>>
    /\ UNCHANGED <<options, errorListener, publicKey, importCount, pc, request,
                   verdict, promise, result, interaction, timer, elapsed,
                   signal, abortListener, emitted, attempts, firstPayload,
                   lastAttempt, parsed, settledAt, settledBy, inEmit>>

ClientNext ==
    \/ \E h \in Handlers : construct001(h)
    \/ \E h \in Handlers : construct002(h)
    \/ \E h \in Handlers : setToken(h)

RestNext ==
    \/ \E h \in Handlers : setToken(h)
    \/ \E h \in Handlers : restCall(h)
    \/ fetchSettles
    \/ bodyRead

Next ==
    \/ \E r \in Requests : handleRequest(r)
    \/ \E r \in Requests : importKeyDone(r)
    \/ \E r \in Requests : handleRequestResume(r)
    \/ \E r \in Requests : handleRequestReturn(r)
    \/ \E r \in Requests : callVerifyRequest(r)
    \/ \E r \in Requests : verifyRequestReturn(r)
    \/ \E r \in Requests : callProcessRequest001(r)
    \/ \E r \in Requests : callProcessRequest(r)
    \/ \E r \in Requests : subscriberResponds(r)
    \/ \E r \in Requests : timerFires(r)
    \/ \E r \in Requests : abort(r)
    \/ tick

Spec == Init /\ [][Next]_vars

\* the event loop runs every task that is ready: awaited promises settle,
\* time passes and due timers fire. Subscribers and abort signals are outside
\* the handler and need not act.
Fairness ==
    /\ WF_vars(tick)
    /\ \A r \in Requests :
         /\ WF_vars(importKeyDone(r))
         /\ WF_vars(handleRequestResume(r))
         /\ WF_vars(handleRequestReturn(r))
         /\ WF_vars(verifyRequestReturn(r))
         /\ WF_vars(timerFires(r))

FairSpec == Spec /\ Fairness

\* two requests in flight at one handler with the built-in verifier; the
\* configuration is narrowed to keep the interleavings of the two requests
\* within reach
InitConcurrent ==
    /\ InitWith(Requests)
    /\ options.verifyRequest = "default"
    /\ options.publicKey = "valid"
    /\ options.replyTimeout = 1
    /\ options.deferOnTimeout
    /\ errorListener

ConcurrentSpec == InitConcurrent /\ [][Next]_vars

\* the construction of handlers and the tokens of their Rest clients, with
\* no request in flight
InitClient ==
    /\ InitWith({})
    /\ options.verifyRequest = "default"
    /\ options.publicKey = "valid"
    /\ options.replyTimeout = 1
    /\ options.deferOnTimeout
    /\ errorListener

ClientSpec == InitClient /\ [][ClientNext]_vars

\* the calls of the Rest client of one part_002 handler: the state after
\* new InteractionHandler(args) in a fresh process
InitRest ==
    /\ InitRequests({})
    /\ options.verifyRequest = "default"
    /\ options.publicKey = "valid"
    /\ options.replyTimeout = 1
    /\ options.deferOnTimeout
    /\ errorListener
    /\ \E args \in UserOptions :
         LET o == ObjectAssign(DefaultOptions, args) IN
         /\ defaultOptions = [rev \in Revisions |->
                 IF rev = "part_002" THEN o ELSE DefaultOptions]
         /\ handlers = [h \in Handlers |->
                 IF h = "h1" THEN Handler002(args) ELSE NoHandler]
         /\ api = [h \in Handlers |->
                 IF h = "h1" THEN RestConstructor(o.rest) ELSE NoRest]
    /\ lastFetch = NoFetch

RestSpec == InitRest /\ [][RestNext]_vars

\* ---------------------------------------------------------------- properties
Handled(r) == request[r].variant = "handle"
Direct(r) == request[r].variant = "process"
\* the requests processed by processRequest of part_001
Part001(r) == request[r].variant \in {"handle", "process001"}
\* handleRequest has returned or thrown
Answered(r) == Handled(r) /\ result[r].kind # "none"

\* the response a subscriber's payload must come out as
ExpectedResponse(r, pay) == IF Part001(r) THEN <<pay, 200>> ELSE <<pay>>

\* C1: for a non-ping interaction the subscriber's response, the reply
\* timeout and the abort signal exclude each other: the first of them settles
\* the promise of processRequest, and no later one changes the settled
\* promise or the response handleRequest has produced.
C1_FirstOutcomeWins ==
    [][\A r \in Requests :
          /\ Settled(promise[r]) => promise'[r] = promise[r]
          /\ result[r].kind # "none" => result'[r] = result[r]]_vars

\* C1 witness: the timer settled the request and the subscriber responded
\* afterwards
C1_Witness ==
    \E r \in Requests :
        /\ settledBy[r] = "timer"
        /\ attempts[r] > 0
        /\ interaction[r].exists

\* C2 (as claimed): a request whose interaction is waiting for its response
\* is eventually completed, even if the subscriber never responds.
C2_EventuallyCompletes ==
    \A r \in Requests : (pc[r] \in {"waiting", "awaiting"}) ~> (pc[r] = "done")

\* a step in which the subscriber responds again: the count of responses
\* goes up, or it has reached MaxAttempts and the step is neither the timer
\* nor the abort signal of the request
LaterRespond(r) ==
    \/ attempts'[r] = attempts[r] + 1
    \/ /\ attempts[r] = MaxAttempts
       /\ timer'[r] = timer[r]
       /\ signal'[r] = signal[r]

\* C3: when the subscriber responds more than once, every response after the
\* first is rejected or does nothing (promise and interaction stay as they
\* are), and a request that was settled by a response carries the payload of
\* the first response.
C3_SecondRespondNoOp ==
    /\ [](\A r \in Requests :
            settledBy[r] = "respond" =>
                /\ promise[r].state = "resolved"
                /\ promise[r].value = ExpectedResponse(r, firstPayload[r])
                /\ Answered(r) => result[r] = Returned(<<firstPayload[r], 200>>))
    /\ [][\A r \in Requests :
            attempts[r] >= 1 /\ LaterRespond(r) =>
                /\ lastAttempt'[r] \in {"rejected", "threw"}
                /\ promise'[r] = promise[r]
                /\ interaction'[r] = interaction[r]]_vars

\* C3 witness: two responses, the first of which settled the request
C3_Witness ==
    \E r \in Requests :
        /\ attempts[r] = 2
        /\ settledBy[r] = "respond"
        /\ lastAttempt[r] = "rejected"

\* C4: an interaction is never both responded and timed out, and once it has
\* left Pending its state never changes: a response after a hard timeout does
\* not make it Responded, a timer after a response does not make it TimedOut.
C4_StateTerminal ==
    /\ [](\A r \in Requests :
            ~(interaction[r].responded /\ interaction[r].timeout))
    /\ [][\A r \in Requests :
            interaction[r].exists /\ StateOf(interaction[r]) # "Pending" =>
                StateOf(interaction'[r]) = StateOf(interaction[r])]_vars

\* C4 witness: the subscriber responded to an interaction that had timed out
C4_Witness ==
    \E r \in Requests :
        /\ interaction[r].timeout
        /\ lastAttempt[r] = "rejected"

\* C5: when the reply timer decides a non-autocomplete interaction, the
\* response is the deferred acknowledgement if deferOnTimeout is set and the
\* TimedOut error with status 504 if not, and it is produced no earlier than
\* replyTimeout after the interaction was created; when the timer has fired
\* and the subscriber neither responded nor threw, the timer decided.
C5_TimeoutResponse ==
    \A r \in Requests :
        /\ timer[r] = "fired" /\ attempts[r] = 0 /\ settledBy[r] # "throw"
              => settledBy[r] = "timer"
        /\ settledBy[r] = "timer" /\ ~isAutoComplete(interaction[r]) =>
              /\ promise[r].state = "resolved"
              /\ promise[r].value =
                    IF options.deferOnTimeout
                    THEN <<"Deferred", 200>> ELSE <<"TimedOut", 504>>
              /\ Answered(r) => result[r] = Returned(promise[r].value)
              /\ settledAt[r] >= options.replyTimeout

\* C5 witness: an unanswered command was deferred by the timer
C5_Witness ==
    \E r \in Requests :
        /\ settledBy[r] = "timer"
        /\ ~isAutoComplete(interaction[r])
        /\ options.deferOnTimeout
        /\ attempts[r] = 0

\* C6: an autocomplete interaction never gets the deferred acknowledgement;
\* when the timer decides it, the response is the TimedOut error (504) and the
\* interaction is timed out, whatever deferOnTimeout is.
C6_AutocompleteNeverDeferred ==
    \A r \in Requests :
        isAutoComplete(interaction[r]) =>
            /\ promise[r].value # <<"Deferred", 200>>
            /\ settledBy[r] = "timer" =>
                  /\ promise[r] = [state |-> "resolved",
                                   value |-> <<"TimedOut", 504>>]
                  /\ interaction[r].timeout

\* C6 witness: an autocomplete interaction timed out with deferOnTimeout set
C6_Witness ==
    \E r \in Requests :
        /\ isAutoComplete(interaction[r])
        /\ options.deferOnTimeout
        /\ settledBy[r] = "timer"

ProcessCalled(r) == promise[r].state # "none"

NothingCreated(r) ==
    /\ ~interaction[r].exists
    /\ timer[r] = "none"
    /\ emitted[r] = 0

\* C7 (as claimed): processRequest called with a Ping body always resolves
\* with Pong, and makes no Interaction, no timer and no interactionCreate.
C7_PingAlwaysPong ==
    \A r \in Requests :
        ProcessCalled(r) /\ request[r].body = "ping" =>
            /\ promise[r].state = "resolved"
            /\ promise[r].value = ExpectedResponse(r, "Pong")
            /\ NothingCreated(r)

\* C7 (amended): processRequest called with a Ping body resolves with Pong
\* unless its signal had already fired at the call, in which case it rejects
\* with the signal's reason without parsing the body; in both cases it makes
\* no Interaction, no timer and no interactionCreate.
C7_PingPongUnlessAborted ==
    \A r \in Requests :
        ProcessCalled(r) /\ request[r].body = "ping" =>
            /\ NothingCreated(r)
            /\ IF parsed[r]
               THEN /\ promise[r].state = "resolved"
                    /\ promise[r].value = ExpectedResponse(r, "Pong")
                    /\ Answered(r) => result[r] = Returned(<<"Pong", 200>>)
               ELSE /\ Direct(r) /\ signal[r] = "aborted"
                    /\ promise[r] = [state |-> "rejected",
                                     value |-> <<AbortReason>>]

\* C7 witness: a ping was processed and answered
C7_Witness ==
    \E r \in Requests :
        /\ request[r].body = "ping"
        /\ parsed[r]
        /\ promise[r].state = "resolved"

\* C8: when the abort signal fires while the request is still undecided,
\* processRequest rejects with the signal's reason; a response the subscriber
\* attempts afterwards is not applied and leaves that outcome as it is.
C8_AbortCancels ==
    /\ [](\A r \in Requests :
            settledBy[r] = "abort" =>
                /\ promise[r] = [state |-> "rejected", value |-> <<AbortReason>>]
                /\ ~interaction[r].responded)
    /\ [][\A r \in Requests :
            /\ signal[r] = "live" /\ signal'[r] = "aborted"
                  /\ promise[r].state = "pending"
                  => promise'[r] = [state |-> "rejected",
                                    value |-> <<AbortReason>>]
            /\ signal[r] = "aborted" /\ LaterRespond(r)
                  => /\ lastAttempt'[r] # "applied"
                     /\ promise'[r] = promise[r]]_vars

\* C8 witness: the signal cancelled the request and the subscriber then
\* tried to respond
C8_Witness ==
    \E r \in Requests :
        /\ settledBy[r] = "abort"
        /\ lastAttempt[r] = "threw"

\* C9 (as claimed): when the verifier returns false or throws, handleRequest
\* returns the Unauthorized response and does nothing else: no parsing, no
\* Interaction, no timer, no interactionCreate.
C9_UnauthorizedOnFailure ==
    \A r \in Requests :
        Handled(r) /\ pc[r] = "done" /\ verdict[r] # "true" =>
            /\ result[r] = Returned(<<"Unauthorized", 400>>)
            /\ ~parsed[r]
            /\ ~ProcessCalled(r)
            /\ NothingCreated(r)

\* C10 (as claimed): a verified request whose body is not JSON makes
\* processRequest reject with the parse error, which handleRequest turns into
\* an error response: not Unauthorized and not an exception leaving
\* handleRequest; no Interaction is made and no interactionCreate is emitted.
C10_ParseErrorResponse ==
    \A r \in Requests :
        /\ Handled(r) /\ verdict[r] = "true" /\ pc[r] = "done"
        /\ JSONparse(request[r].body) = "throw"
        => /\ promise[r] = [state |-> "rejected", value |-> <<"DisciParseError">>]
           /\ result[r].kind = "returned"
           /\ result[r].value # <<"Unauthorized", 400>>
           /\ NothingCreated(r)

\* C11 (as claimed): for a request without the signature header or without
\* the timestamp header the built-in verifyRequest settles with false: it
\* neither throws nor rejects, on the first call and with a key that cannot
\* be imported too.
C11_MissingHeaderFalse ==
    \A r \in Requests :
        /\ \/ Handled(r) /\ options.verifyRequest = "default"
           \/ request[r].variant = "verify"
        /\ pc[r] \in {"verifying", "awaiting", "done"}
        /\ ~request[r].timestamp \/ request[r].signature = "none"
        => /\ verdict[r] = "false"
           /\ request[r].variant = "verify" /\ pc[r] = "done"
                 => result[r] = Returned(<<"false">>)

\* C12 (as claimed): handleRequest never rejects; whatever the request, its
\* promise resolves with a response object.
C12_NeverRejects ==
    \A r \in Requests : Handled(r) => result[r].kind # "rejected"

\* C13 (as claimed): when a listener throws while interactionCreate is
\* emitted, handleRequest returns the InternalError response (500), with or
\* without an 'error' listener; the exception does not leave handleRequest.
C13_SubscriberErrorCaught ==
    \A r \in Requests :
        Answered(r) /\ inEmit[r] = "throw" =>
            result[r] = Returned(<<"InternalError", 500>>)

\* C15 (as claimed): the reply timer is cancelled as soon as the request is
\* decided: no timer is still scheduled once the promise of processRequest
\* is settled or handleRequest has produced its result.
C15_TimerCancelled ==
    \A r \in Requests :
        Settled(promise[r]) \/ result[r].kind # "none" => timer[r] # "armed"

\* C16 (as claimed): when the abort signal decides a request, its interaction
\* has left Pending (it is treated as timed out) by the time the rejection is
\* reported.
C16_AbortFinalizes ==
    \A r \in Requests :
        settledBy[r] = "abort" => StateOf(interaction[r]) # "Pending"

\* C19: interactionCreate is emitted once for each interaction and for
\* nothing else; when it is emitted the response callback is installed and so
\* is the timer (part_001) or the abort listener (part_002, with a signal),
\* and a listener that responds inside emit has its payload delivered as the
\* response of the request.
C19_CallbackBeforeEmit ==
    /\ [](\A r \in Requests :
            emitted[r] = IF interaction[r].exists THEN 1 ELSE 0)
    /\ [][\A r \in Requests :
            ~interaction[r].exists /\ interaction'[r].exists =>
                /\ interaction'[r].callback \in {"resolveResponse", "resolveRaw"}
                /\ Part001(r)' => timer'[r] = "armed"
                /\ request'[r].variant = "process" /\ signal'[r] # "none"
                      => abortListener'[r]
                /\ inEmit'[r] = "respond" =>
                      /\ lastAttempt'[r] = "applied"
                      /\ promise'[r].state = "resolved"
                      /\ promise'[r].value =
                            IF Part001(r)'
                            THEN <<firstPayload'[r], 200>>
                            ELSE <<firstPayload'[r]>>]_vars

\* C19 witness: a listener responded inside emit and that response settled
\* the request
C19_Witness ==
    \E r \in Requests :
        /\ inEmit[r] = "respond"
        /\ emitted[r] = 1
        /\ settledBy[r] = "respond"
        /\ promise[r].value = ExpectedResponse(r, firstPayload[r])

\* C14 (as claimed): crypto.subtle.importKey runs at most once per handler,
\* also when several requests reach verifyRequest before the key is cached.
C14_ImportOnce == importCount <= 1

\* what belongs to one request: its place, input, promises, interaction,
\* timer and signal
PerRequest(r) ==
    <<pc[r], request[r], verdict[r], promise[r], result[r], interaction[r],
      timer[r], signal[r], abortListener[r], emitted[r], attempts[r]>>

\* C17: every step (a call, a response of a subscriber, a timer, an abort)
\* changes the promise, response, interaction, timer and signal of at most
\* one request: an event of one request leaves every other request as it is.
C17_RequestsIndependent ==
    [][\A r, q \in Requests :
          r # q /\ PerRequest(r)' # PerRequest(r)
              => PerRequest(q)' = PerRequest(q)]_vars

\* C17 witness: two interactions at once, one answered by its subscriber
\* and one decided by its timer
C17_Witness ==
    \E r, q \in Requests :
        /\ r # q
        /\ interaction[r].exists /\ interaction[q].exists
        /\ settledBy[r] = "respond"
        /\ settledBy[q] = "timer"

\* C18 (as claimed): the configuration of every handler is its own options
\* merged over the defaults as they were shipped, and the shared defaults
\* are never changed by a constructor.
C18_ConfigIndependent ==
    /\ defaultOptions = [rev \in Revisions |-> DefaultOptions]
    /\ \A h \in Handlers :
          handlers[h].status = "made" =>
              HandlerOptions(h) = ObjectAssign(DefaultOptions, handlers[h].args)

\* the verb each helper is named after
VerbOf(helper) ==
    CASE helper = "get" -> "GET"
      [] helper = "post" -> "POST"
      [] helper = "put" -> "PUT"
      [] helper = "patch" -> "PATCH"
      [] helper = "delete" -> "DELETE"

\* C20 (as claimed): every REST helper hands makeRequest the HTTP verb it is
\* named after.
C20_VerbMatchesHelper ==
    lastFetch.helper \in Helpers =>
        lastFetch.method = VerbOf(lastFetch.helper)

====
